---------------------------- MODULE Spec2Model ----------------------------
(***************************************************************************)
(* A model of MicroBitLightSensor (source/drivers/MicroBitLightSensor.cpp).*)
(*                                                                         *)
(* The sensor borrows one column pin of the LED matrix per sensing cycle:  *)
(* startSensing hands the pin over to an AnalogIn and arms a one-shot      *)
(* Timeout; analogReady, the Timeout's callback, reads the sample, gives   *)
(* the pin back, advances the channel and updates the averages.            *)
(*                                                                         *)
(* startSensing runs in the context that delivers the display's event (or  *)
(* in any caller's context: it "can be manually driven"), analogReady runs *)
(* from the timer interrupt.  The code takes no lock and masks no          *)
(* interrupt, so startSensing is modelled statement by statement and the   *)
(* callback may run between any two of its statements; the callback itself *)
(* runs to completion.                                                     *)
(***************************************************************************)
EXTENDS Integers, Sequences, FiniteSets, TLC

(***************************************************************************)
(* Program constants.                                                      *)
(***************************************************************************)
\* MICROBIT_LIGHT_SENSOR_CHAN_NUM ("the three results", "three sections").
MICROBIT_LIGHT_SENSOR_CHAN_NUM == 3
\* The literal upper bound of the validity window in update_averages.
VALID_MAX == 450
\* Output clamp range used by read (MicroBitLightSensor.h).
MICROBIT_LIGHT_SENSOR_MIN_VALUE == 0
MICROBIT_LIGHT_SENSOR_MAX_VALUE == 450
\* The "never sampled" / "no data" sentinel of results[], valid_average
\* and read(true).
SENTINEL == -1

(***************************************************************************)
(* Bounds of the model.                                                    *)
(***************************************************************************)
\* Completed conversions explored from construction.
MaxConversions == 4

\* Values AnalogIn::read_u16 may return (a uint16_t): both edges of the
\* validity window, values inside it and one outside.
Samples == {0, 100, 125, 150, 450, 451}

\* Values the member `average`, which the constructor does not set, may
\* hold before the first conversion.
UninitInts == {-1, 0, 500}

Channels == 0 .. (MICROBIT_LIGHT_SENSOR_CHAN_NUM - 1)

\* ADC_CONFIG_PSEL_Disabled, and the pin of a NULL sensePin.
NoPin == -1
\* What a void operation returns; read returning r is recorded as <<r>>.
NoRet == <<>>

VARIABLES
    chan,           \* uint8_t chan: the channel sampled next
    results,        \* int results[CHAN_NUM]
    average,        \* int average
    valid_average,  \* int valid_average
    sensePin,       \* AnalogIn* sensePin: [pin, st], st in null/live/freed
    armed,          \* analogTrigger has a pending one-shot callback
    pc,             \* next statement of the running startSensing, or "idle"
    currentPin,     \* startSensing's local PinName (as a column offset)
    rowsLow,        \* startSensing has driven every row pin low
    colMode,        \* per column pin: "out1" (digital out, high) or "in"
    adc,            \* column selected by the ADC, NoPin when disabled
    lastOp,         \* the operation whose statement ran last
    ret,            \* what that operation returned (NoRet: nothing)
    valid,          \* what the last update_averages returned
    conversions,    \* completed analogReady executions
    readyEvents,    \* LIGHT_SENSE_READY events published so far
    lastRead,       \* the handle the last read_u16 went through: sensePin then
    dropped         \* chan of a cycle whose timer was not armed, until a conversion

vars == <<chan, results, average, valid_average, sensePin, armed, pc, currentPin,
          rowsLow, colMode, adc, lastOp, ret, valid, conversions, readyEvents,
          lastRead, dropped>>

hw == <<rowsLow, colMode, adc>>
averager == <<results, average, valid_average, valid, readyEvents>>

(***************************************************************************)
(* Helpers of the C++ source.                                              *)
(***************************************************************************)
min(a, b) == IF a < b THEN a ELSE b
max(a, b) == IF a > b THEN a ELSE b

\* C's integer division truncates toward zero.
CDiv(a, b) ==
    IF (a >= 0) = (b > 0) THEN (IF a >= 0 THEN a ELSE -a) \div (IF b > 0 THEN b ELSE -b)
    ELSE -((IF a >= 0 THEN a ELSE -a) \div (IF b > 0 THEN b ELSE -b))

NullHandle == [pin |-> NoPin, st |-> "null"]

(***************************************************************************)
(* analogReady: this->results[chan] = this->sensePin->read_u16();          *)
(***************************************************************************)
StoreSlot_AfterAdvance(res, c, v) ==
    [res EXCEPT ![(c + 1) % MICROBIT_LIGHT_SENSOR_CHAN_NUM] = v]

StoreSlot(res, c, v) == [res EXCEPT ![c] = v]

(***************************************************************************)
(* analogReady: chan++; chan = chan % MICROBIT_LIGHT_SENSOR_CHAN_NUM.      *)
(***************************************************************************)
NextChan_NoWrap(c) == c + 1

NextChan(c) == (c + 1) % MICROBIT_LIGHT_SENSOR_CHAN_NUM

(***************************************************************************)
(* update_averages.                                                        *)
(***************************************************************************)
\* The test of the loop body: the result is outside the validity window.
OutOfWindow_Exclusive(r) == r < 0 \/ r >= VALID_MAX

OutOfWindow_NoLower(r) == r > VALID_MAX

OutOfWindow(r) == r < 0 \/ r > VALID_MAX

\* The term a result adds to the sum: zero for a slot never sampled.
SumTerm_Raw(r) == r

SumTerm(r) == max(r, 0)

\* The for loop, from index i with the locals valid and sum.
RECURSIVE update_loop(_, _, _, _)
update_loop(res, i, v, sum) ==
    IF i < MICROBIT_LIGHT_SENSOR_CHAN_NUM
    THEN update_loop(res, i + 1, IF OutOfWindow(res[i]) THEN FALSE ELSE v,
                     sum + SumTerm(res[i]))
    ELSE [valid |-> v, sum |-> sum]

\* valid_average after the call: overwritten only if (valid).
NewValidAverage_Always(v, avg, old) == avg

NewValidAverage(v, avg, old) == IF v THEN avg ELSE old

\* The number of MicroBitEvents the call creates (each fires on creation).
Published_Always(v) == 1

Published(v) == IF v THEN 1 ELSE 0

\* The members after update_averages ran on the results res, and its return value.
update_averages(res, oldValid) ==
    LET l   == update_loop(res, 0, TRUE, 0)
        avg == CDiv(l.sum, MICROBIT_LIGHT_SENSOR_CHAN_NUM)
    IN  [average       |-> avg,
         valid_average |-> NewValidAverage(l.valid, avg, oldValid),
         events        |-> Published(l.valid),
         return        |-> l.valid]

(***************************************************************************)
(* read.                                                                   *)
(***************************************************************************)
\* if (valid_only && average < 0) return -1;
NoData_NonPositive(valid_only, avg) == valid_only /\ avg <= 0

NoData(valid_only, avg) == valid_only /\ avg < 0

\* average = min(average, MAX_VALUE); average = max(average, MIN_VALUE);
Clamp_None(avg) == avg

Clamp(avg) ==
    max(min(avg, MICROBIT_LIGHT_SENSOR_MAX_VALUE), MICROBIT_LIGHT_SENSOR_MIN_VALUE)

\* int inverted = (MAX_VALUE - average) + MIN_VALUE;
Inverted_None(avg) == avg

Inverted(avg) ==
    (MICROBIT_LIGHT_SENSOR_MAX_VALUE - avg) + MICROBIT_LIGHT_SENSOR_MIN_VALUE

\* int normalised = a + (((inverted - MIN_VALUE) * (b - a)) / (MAX_VALUE - MIN_VALUE));
Normalised(inverted) ==
    LET a == 0
        b == 255
    IN  a + CDiv((inverted - MICROBIT_LIGHT_SENSOR_MIN_VALUE) * (b - a),
                 MICROBIT_LIGHT_SENSOR_MAX_VALUE - MICROBIT_LIGHT_SENSOR_MIN_VALUE)

\* The body of read once the local average holds the selected member.
readOf(valid_only, avg0) ==
    IF NoData(valid_only, avg0) THEN SENTINEL
    ELSE Normalised(Inverted(Clamp(avg0)))

read(valid_only) ==
    readOf(valid_only, IF valid_only THEN valid_average ELSE average)

(***************************************************************************)
(* The state after the constructor.                                        *)
(***************************************************************************)
Init ==
    /\ chan = 0
    /\ valid_average = SENTINEL
    /\ results = [i \in Channels |-> SENTINEL]
    /\ average \in UninitInts
    /\ sensePin = NullHandle
    /\ armed = FALSE
    /\ pc = "idle"
    /\ currentPin = NoPin
    /\ rowsLow = FALSE
    /\ colMode = [i \in Channels |-> "out1"]
    /\ adc = NoPin
    /\ lastOp = "construct"
    /\ ret = NoRet
    /\ valid = FALSE
    /\ conversions = 0
    /\ readyEvents = 0
    /\ lastRead = [pin |-> NoPin, st |-> "none"]
    /\ dropped = NoPin

(***************************************************************************)
(* startSensing, one action per statement.                                 *)
(***************************************************************************)
\* for (rowCount ...) DigitalOut(rowStart + rowCount).write(0);
startSensing_rows ==
    /\ pc = "idle"
    /\ rowsLow' = TRUE
    /\ pc' = "pin"
    /\ lastOp' = "startSensing"
    /\ ret' = NoRet
    /\ UNCHANGED <<chan, averager, sensePin, armed, currentPin, colMode, adc,
                   conversions, lastRead, dropped>>

\* PinName currentPin = (PinName)(matrixMap.columnStart + chan);
startSensing_pin_NextChannel ==
    /\ pc = "pin"
    /\ currentPin' = (chan + 1) % MICROBIT_LIGHT_SENSOR_CHAN_NUM
    /\ pc' = "high"
    /\ lastOp' = "startSensing"
    /\ ret' = NoRet
    /\ UNCHANGED <<chan, averager, sensePin, armed, hw,
                   conversions, lastRead, dropped>>

startSensing_pin ==
    /\ pc = "pin"
    /\ currentPin' = chan
    /\ pc' = "high"
    /\ lastOp' = "startSensing"
    /\ ret' = NoRet
    /\ UNCHANGED <<chan, averager, sensePin, armed, hw,
                   conversions, lastRead, dropped>>

\* DigitalOut(currentPin).write(1);
startSensing_high ==
    /\ pc = "high"
    /\ colMode' = [colMode EXCEPT ![currentPin] = "out1"]
    /\ pc' = "input"
    /\ lastOp' = "startSensing"
    /\ ret' = NoRet
    /\ UNCHANGED <<chan, averager, sensePin, armed, currentPin, rowsLow, adc,
                   conversions, lastRead, dropped>>

\* DigitalIn(currentPin, PullNone).~DigitalIn();
startSensing_input ==
    /\ pc = "input"
    /\ colMode' = [colMode EXCEPT ![currentPin] = "in"]
    /\ pc' = "delete"
    /\ lastOp' = "startSensing"
    /\ ret' = NoRet
    /\ UNCHANGED <<chan, averager, sensePin, armed, currentPin, rowsLow, adc,
                   conversions, lastRead, dropped>>

\* if (this->sensePin != NULL) delete this->sensePin;
startSensing_delete ==
    /\ pc = "delete"
    /\ sensePin' = IF sensePin.st # "null" THEN [sensePin EXCEPT !.st = "freed"]
                                           ELSE sensePin
    /\ pc' = "new"
    /\ lastOp' = "startSensing"
    /\ ret' = NoRet
    /\ UNCHANGED <<chan, averager, armed, currentPin, hw,
                   conversions, lastRead, dropped>>

\* this->sensePin = new AnalogIn(currentPin);
startSensing_new ==
    /\ pc = "new"
    /\ sensePin' = [pin |-> currentPin, st |-> "live"]
    /\ adc' = currentPin
    /\ pc' = "attach"
    /\ lastOp' = "startSensing"
    /\ ret' = NoRet
    /\ UNCHANGED <<chan, averager, armed, currentPin, rowsLow, colMode,
                   conversions, lastRead, dropped>>

startSensing_attach_NoArm ==
    /\ pc = "attach"
    /\ pc' = "idle"
    /\ currentPin' = NoPin
    /\ lastOp' = "startSensing"
    /\ ret' = NoRet
    /\ UNCHANGED <<chan, averager, sensePin, armed, hw, conversions, lastRead, dropped>>

\* analogTrigger.attach_us(this, &analogReady, AN_SET_TIME); return.
startSensing_attach ==
    /\ pc = "attach"
    /\ armed' = TRUE
    /\ pc' = "idle"
    /\ currentPin' = NoPin
    /\ lastOp' = "startSensing"
    /\ ret' = NoRet
    /\ UNCHANGED <<chan, averager, sensePin, hw, conversions, lastRead, dropped>>

\* The statement of line 200 when the timer cannot be armed (the timer
\* resource is exhausted): no callback is pending afterwards.
startSensing_attach_fail ==
    /\ pc = "attach"
    /\ armed' = FALSE
    /\ pc' = "idle"
    /\ currentPin' = NoPin
    /\ dropped' = chan
    /\ lastOp' = "startSensing"
    /\ ret' = NoRet
    /\ UNCHANGED <<chan, averager, sensePin, hw, conversions, lastRead>>

startSensing ==
    \/ startSensing_rows
    \/ startSensing_pin
    \/ startSensing_high
    \/ startSensing_input
    \/ startSensing_delete
    \/ startSensing_new
    \/ startSensing_attach

(***************************************************************************)
(* analogReady: the one-shot callback of analogTrigger.  v is the value    *)
(* read_u16 returns; read through a deleted handle it is any value too.    *)
(***************************************************************************)
analogReady(v) ==
    /\ armed
    /\ conversions < MaxConversions
    /\ LET res == StoreSlot(results, chan, v)
           u   == update_averages(res, valid_average)
       IN  /\ results' = res
           /\ average' = u.average
           /\ valid_average' = u.valid_average
           /\ readyEvents' = readyEvents + u.events
           /\ valid' = u.return
    /\ lastRead' = sensePin
    /\ dropped' = NoPin
    /\ adc' = NoPin
    /\ colMode' = [colMode EXCEPT ![chan] = "out1"]
    /\ chan' = NextChan(chan)
    /\ armed' = FALSE
    /\ conversions' = conversions + 1
    /\ lastOp' = "analogReady"
    /\ ret' = NoRet
    /\ UNCHANGED <<sensePin, pc, currentPin, rowsLow>>

(***************************************************************************)
(* A call of read.  read writes nothing and reads only average and         *)
(* valid_average, which no statement of startSensing writes, so a call     *)
(* made while startSensing is part-way returns what it returns once        *)
(* startSensing is done; calls are taken in the idle states only.          *)
(***************************************************************************)
Read_Consuming(valid_only) ==
    /\ pc = "idle"
    /\ ret' = <<read(valid_only)>>
    /\ lastOp' = IF valid_only THEN "read(true)" ELSE "read(false)"
    /\ valid_average' = IF valid_only THEN SENTINEL ELSE valid_average
    /\ UNCHANGED <<chan, results, average, valid, readyEvents, sensePin, armed, pc,
                   currentPin, hw, conversions, lastRead, dropped>>

Read(valid_only) ==
    /\ pc = "idle"
    /\ ret' = <<read(valid_only)>>
    /\ lastOp' = IF valid_only THEN "read(true)" ELSE "read(false)"
    /\ UNCHANGED <<chan, averager, sensePin, armed, pc, currentPin, hw,
                   conversions, lastRead, dropped>>

Next ==
    \/ startSensing
    \/ \E v \in Samples : analogReady(v)
    \/ \E valid_only \in BOOLEAN : Read(valid_only)

Spec == Init /\ [][Next]_vars

\* The operations when arming the timer may fail; one sample inside and
\* one outside the validity window.
ArmFailSamples == {125, 451}

NextArmFail ==
    \/ startSensing
    \/ startSensing_attach_fail
    \/ \E v \in ArmFailSamples : analogReady(v)

SpecArmFail == Init /\ [][NextArmFail]_vars

\* The operations under fair scheduling: a startSensing that has begun runs
\* its straight-line statements to the end, and a pending timer fires.  When
\* a slot is offered (startSensing_rows) is up to the display.
LiveSamples == {125, 451}

startSensing_run ==
    \/ startSensing_pin
    \/ startSensing_high
    \/ startSensing_input
    \/ startSensing_delete
    \/ startSensing_new
    \/ startSensing_attach

timerFires == \E v \in LiveSamples : analogReady(v)

NextLive ==
    \/ startSensing_rows
    \/ startSensing_run
    \/ timerFires

LiveSpec ==
    Init /\ [][NextLive]_vars /\ WF_vars(startSensing_run) /\ WF_vars(timerFires)

(***************************************************************************)
(* Properties.                                                             *)
(***************************************************************************)
\* A ResultSet is in the validity window: every channel in [0, VALID_MAX].
AllInWindow(res) == \A k \in Channels : 0 <= res[k] /\ res[k] <= VALID_MAX

\* The step completes a conversion (analogReady ran).
ConversionStep == conversions' = conversions + 1

\* Sum over the channels in S of the result, a negative one counted as 0.
RECURSIVE SumNonNeg(_, _)
SumNonNeg(res, S) ==
    IF S = {} THEN 0
    ELSE LET k == CHOOSE x \in S : TRUE
         IN  (IF res[k] > 0 THEN res[k] ELSE 0) + SumNonNeg(res, S \ {k})

\* The scenario of the specification: samples 100, 150, 125 from a fresh sensor.
Scenario == (0 :> 100) @@ (1 :> 150) @@ (2 :> 125)

\* C1: from chan = 0 the channel sampled by successive completed
\* conversions is 0,1,...,C-1,0,...: chan stays in [0, C), equals the number
\* of completed conversions modulo C, advances by exactly 1 modulo C in each
\* completed conversion and is changed by no other operation.
C1_ChanCycles ==
    /\ [](chan \in Channels /\ chan = conversions % MICROBIT_LIGHT_SENSOR_CHAN_NUM)
    /\ [][IF ConversionStep
          THEN chan' = (chan + 1) % MICROBIT_LIGHT_SENSOR_CHAN_NUM
          ELSE chan' = chan]_vars

\* C1's case: a fourth conversion has completed and chan has wrapped to 0 and moved on.
C1_Witness == conversions = MICROBIT_LIGHT_SENSOR_CHAN_NUM + 1 /\ chan = 1
                /\ lastOp = "analogReady"

\* C2: at most one sensing cycle is in flight: no statement of startSensing
\* (pin hand-off, handle replacement, timer arming) runs while the deferred
\* analogReady of a previous cycle is still outstanding.
C2_OneCycleInFlight == pc # "idle" => ~armed

\* C4: every value stored in results[k] was read from an analog handle bound
\* to column pin columnStart + k, under any interleaving of startSensing and
\* analogReady: after each conversion, the slot it stored to (the one before
\* chan) is the column its handle was bound to.
C4_SlotMatchesPin ==
    conversions > 0 =>
        lastRead.pin = (chan + MICROBIT_LIGHT_SENSOR_CHAN_NUM - 1)
                           % MICROBIT_LIGHT_SENSOR_CHAN_NUM

\* C5: whenever analogReady executes its read, sensePin refers to a live
\* analog-input handle, never to a deleted one or to NULL.
C5_ReadThroughLiveHandle == lastRead.st \in {"none", "live"}

\* C6: valid_average changes only in a completed conversion whose resulting
\* ResultSet is valid; every other step (a conversion with an invalid
\* ResultSet, a statement of startSensing, a read) leaves it as it was.
C6_ValidAverageFrame ==
    [][valid_average' # valid_average
         => (ConversionStep /\ AllInWindow(results'))]_vars

\* C6's case: a valid cycle, then an invalid one, and valid_average still
\* holds the valid cycle's average while the running average has moved on.
C6_Witness ==
    /\ conversions = MICROBIT_LIGHT_SENSOR_CHAN_NUM + 1
    /\ lastOp = "analogReady"
    /\ readyEvents = 1
    /\ ~AllInWindow(results)
    /\ valid_average >= 0
    /\ valid_average # average

\* C7: read(true) returns the sentinel -1 in every state before the first
\* fully valid cycle has completed and never again afterwards: it is -1
\* initially, and after a step it is -1 exactly if it was -1 before and the
\* step did not complete a conversion with a valid ResultSet.
C7_NoDataUntilFirstValid ==
    /\ read(TRUE) = SENTINEL
    /\ [][(read(TRUE)' = SENTINEL)
           <=> (read(TRUE) = SENTINEL
                /\ ~(ConversionStep /\ AllInWindow(results')))]_vars

\* C7's case: after a valid cycle followed by an invalid conversion a call
\* of read(true) has returned a reading, not the sentinel.
C7_Witness ==
    /\ lastOp = "read(true)"
    /\ ret # <<SENTINEL>>
    /\ conversions > MICROBIT_LIGHT_SENSOR_CHAN_NUM
    /\ ~AllInWindow(results)

\* C8: the ready notification is published exactly once in each completed
\* conversion whose ResultSet is fully valid and in no other step; from a
\* fresh sensor the samples 100, 150, 125 give no notification after two
\* conversions and exactly one after the third.
C8_ReadyOncePerValidCycle ==
    /\ [](/\ (conversions = 2 /\ results[0] = 100 /\ results[1] = 150)
               => readyEvents = 0
          /\ (conversions = 3 /\ results = Scenario) => readyEvents = 1)
    /\ [][readyEvents' = readyEvents
             + (IF ConversionStep /\ AllInWindow(results') THEN 1 ELSE 0)]_vars

\* C8's case: the scenario's third conversion has just completed.
C8_Witness ==
    /\ conversions = 3
    /\ results = Scenario
    /\ lastOp = "analogReady"
    /\ readyEvents = 1

\* C9: update_averages reports validity true if and only if every channel
\* value lies in [0, VALID_MAX]; a ResultSet with a never-sampled -1 slot is
\* invalid.
C9_ValidIffInWindow ==
    conversions > 0 =>
        /\ valid <=> AllInWindow(results)
        /\ (\E k \in Channels : results[k] = SENTINEL) => ~valid

\* C9's case: a ResultSet holding both edges of the window was reported valid.
C9_Witness ==
    /\ conversions > 0
    /\ valid
    /\ \E k \in Channels : results[k] = VALID_MAX
    /\ \E k \in Channels : results[k] = 0

\* C10: after every completed conversion, valid or not, the running average
\* is floor(sum over all channels of max(results[i], 0) / C), a never-sampled
\* slot counted as 0.
C10_RunningAverage ==
    conversions > 0 =>
        average = SumNonNeg(results, Channels) \div MICROBIT_LIGHT_SENSOR_CHAN_NUM

\* C10's case: one conversion stored 100, two slots are still -1, the
\* ResultSet is invalid and the average is floor(100 / 3).
C10_Witness ==
    /\ conversions = 1
    /\ results[0] = 100
    /\ results[1] = SENTINEL
    /\ ~valid
    /\ average = 33

\* The step is a call of read.
ReadStep == lastOp' \in {"read(true)", "read(false)"}

\* The average a call of read selects.
Selected(valid_only) == IF valid_only THEN valid_average ELSE average

\* clamp(a, MIN_VALUE, MAX_VALUE).
ClampTo(a, lo, hi) == IF a < lo THEN lo ELSE IF a > hi THEN hi ELSE a

\* floor(((MAX - clamp(a) + MIN) - MIN) * 255 / (MAX - MIN)).
Brightness(a) ==
    (((MICROBIT_LIGHT_SENSOR_MAX_VALUE
         - ClampTo(a, MICROBIT_LIGHT_SENSOR_MIN_VALUE, MICROBIT_LIGHT_SENSOR_MAX_VALUE)
         + MICROBIT_LIGHT_SENSOR_MIN_VALUE)
      - MICROBIT_LIGHT_SENSOR_MIN_VALUE) * 255)
    \div (MICROBIT_LIGHT_SENSOR_MAX_VALUE - MICROBIT_LIGHT_SENSOR_MIN_VALUE)

\* Averages the output of read is compared at: below, at and above the
\* clamp range and inside it.
AverageProbes == {-1, 0, 1, 2, 33, 100, 125, 126, 300, 448, 449, 450, 451, 500}

\* C11: for every non-sentinel selected average a, read returns
\* floor(((MAX_VALUE - clamp(a) + MIN_VALUE) - MIN_VALUE) * 255 / (MAX_VALUE - MIN_VALUE));
\* with a running average of 125, read(false) returns 184.
C11_ReadFormula ==
    /\ lastOp = "read(false)" => ret = <<Brightness(average)>>
    /\ (lastOp = "read(true)" /\ valid_average # SENTINEL)
          => ret = <<Brightness(valid_average)>>
    /\ (lastOp = "read(false)" /\ average = 125) => ret = <<184>>

\* C11's case: the scenario's cycle has completed and read(false) returned 184.
C11_Witness ==
    /\ lastOp = "read(false)"
    /\ results = Scenario
    /\ average = 125
    /\ ret = <<184>>

\* C12: every value read returns other than the sentinel -1 lies in
\* [0, 255]; the output never increases with the average (a <= b gives
\* output(a) >= output(b)), compared between the value each call returned
\* for the average it selected and the output at each probe; an average at
\* or above MAX_VALUE gives 0 and one at or below MIN_VALUE gives 255.
C12_RangeAndMonotonic ==
    \A vo \in BOOLEAN :
        (lastOp = (IF vo THEN "read(true)" ELSE "read(false)") /\ ret # <<SENTINEL>>) =>
            LET a == Selected(vo)
                r == ret[1]
            IN  /\ r \in 0 .. 255
                /\ a >= MICROBIT_LIGHT_SENSOR_MAX_VALUE => r = 0
                /\ a <= MICROBIT_LIGHT_SENSOR_MIN_VALUE => r = 255
                /\ \A b \in AverageProbes :
                      readOf(vo, b) # SENTINEL =>
                        /\ a <= b => r >= readOf(vo, b)
                        /\ b <= a => readOf(vo, b) >= r

\* C12's case: read(false) has returned 0 for a running average above
\* MAX_VALUE.
C12_Witness ==
    /\ lastOp = "read(false)"
    /\ conversions >= MICROBIT_LIGHT_SENSOR_CHAN_NUM
    /\ average > MICROBIT_LIGHT_SENSOR_MAX_VALUE
    /\ ret = <<0>>

\* C13: read is idempotent and free of side effects: a call leaves results,
\* chan, the running average and valid_average unchanged, the value it
\* returned is the value a call made right after it returns, and two calls
\* in a row with the same argument return the same value.
C13_ReadIdempotent ==
    [][ReadStep =>
          /\ UNCHANGED <<results, chan, average, valid_average>>
          /\ \A vo \in BOOLEAN :
                (lastOp' = (IF vo THEN "read(true)" ELSE "read(false)"))
                  => /\ ret' = <<read(vo)>>
                     /\ ret' = <<read(vo)'>>
                     /\ lastOp = lastOp' => ret' = ret]_vars

\* C13's case: read(true) has returned a reading while a later cycle is
\* still waiting for its conversion.
C13_Witness ==
    /\ lastOp = "read(true)"
    /\ armed
    /\ readyEvents > 0
    /\ ret = <<read(TRUE)>>
    /\ ret # <<SENTINEL>>

\* C14: immediately after construction every ResultSet slot is -1,
\* valid_average is -1, the running average is initialised to the sentinel,
\* chan is 0 and no analog handle is owned; hence read on the fresh sensor
\* is well defined (read(false) gives the output for the sentinel).
C14_ConstructedState ==
    /\ lastOp = "construct" =>
          /\ \A k \in Channels : results[k] = SENTINEL
          /\ valid_average = SENTINEL
          /\ average = SENTINEL
          /\ chan = 0
          /\ sensePin = NullHandle
    /\ (lastOp = "read(false)" /\ conversions = 0) => ret = <<Brightness(SENTINEL)>>

\* C15: every completed conversion releases the pin it acquired: when
\* analogReady has run and no cycle is in flight, the analog peripheral is
\* disabled and every column pin is a digital output driven high.
C15_PinReleased ==
    (lastOp = "analogReady" /\ pc = "idle" /\ ~armed) =>
        /\ adc = NoPin
        /\ \A k \in Channels : colMode[k] = "out1"

\* C16: if arming the timer fails in startSensing the cycle is dropped
\* silently: no statement of startSensing changes results, chan, the
\* running average or valid_average or publishes a notification; chan stays
\* the dropped cycle's channel, the next startSensing targets it, and the
\* conversion that follows reads a handle bound to it, stores its slot and
\* advances chan past it.
C16_DroppedCycle ==
    /\ [](dropped # NoPin =>
            /\ chan = dropped
            /\ pc \in {"high", "input", "delete", "new", "attach"}
                  => currentPin = dropped)
    /\ [][lastOp' = "startSensing"
            => UNCHANGED <<results, chan, average, valid_average, readyEvents>>]_vars
    /\ [][(dropped # NoPin /\ ConversionStep) =>
            /\ lastRead'.pin = dropped
            /\ results'[dropped] # SENTINEL
            /\ chan' = (dropped + 1) % MICROBIT_LIGHT_SENSOR_CHAN_NUM]_vars

\* C16's case: after a conversion a cycle was dropped, and the next
\* startSensing has bound a live handle to the dropped channel and armed the
\* timer.
C16_Witness ==
    /\ dropped # NoPin
    /\ conversions > 0
    /\ conversions < MaxConversions
    /\ pc = "idle"
    /\ armed
    /\ sensePin = [pin |-> dropped, st |-> "live"]

\* C17: no valid average exists before one full rotation: with fewer than C
\* completed conversions valid_average is -1, no ready notification has
\* been published and read(true) returns -1, whatever the samples were.
C17_NoValidBeforeRotation ==
    conversions < MICROBIT_LIGHT_SENSOR_CHAN_NUM =>
        /\ valid_average = SENTINEL
        /\ readyEvents = 0
        /\ read(TRUE) = SENTINEL
        /\ lastOp = "read(true)" => ret = <<SENTINEL>>

\* C17's case: two in-window samples are stored and read(true) has returned -1.
C17_Witness ==
    /\ conversions = MICROBIT_LIGHT_SENSOR_CHAN_NUM - 1
    /\ results[0] = 100
    /\ results[1] = 150
    /\ lastOp = "read(true)"
    /\ ret = <<SENTINEL>>

C19_ResultSetFrame ==
    [][/\ IF ConversionStep
          THEN /\ \A k \in Channels \ {chan} : results'[k] = results[k]
               /\ results'[chan] >= 0
          ELSE results' = results
       /\ \A k \in Channels : results[k] # SENTINEL => results'[k] # SENTINEL]_vars

\* C19's case: the fourth conversion has overwritten slot 0 and left the
\* slots 1 and 2 of the first rotation in place.
C19_Witness ==
    /\ conversions = MICROBIT_LIGHT_SENSOR_CHAN_NUM + 1
    /\ lastOp = "analogReady"
    /\ results[0] = 451
    /\ results[1] = 150
    /\ results[2] = 125

=============================================================================
